---- MODULE Spec2Model ----
(***************************************************************************)
(* Model of the Vulkan bootstrap program: main() runs run_application,     *)
(* which creates the window, the Vulkan instance, the debug messenger,     *)
(* selects a physical device, runs the event loop and tears down.          *)
(*                                                                         *)
(* The platform (GLFW, the Vulkan loader and driver) is the environment:   *)
(* its answers are drawn from small sets at the call that asks for them.   *)
(* GLFW calls are taken to succeed; the program never looks at their       *)
(* results.                                                                *)
(***************************************************************************)
EXTENDS Integers, Sequences, FiniteSets, TLC

\* ---------------------------------------------------------------- bounds
MaxDevices  == 3   \* physical devices the platform may enumerate
MaxFamilies == 2   \* queue families per device
MaxLayers   == 1   \* instance layers the platform may report
MaxPolls    == 1   \* iterations of the event loop that are counted
MaxSurfaceDevices == 2 \* devices enumerated when pick_physical_device is called alone

\* ------------------------------------------------------ platform constants
VK_NULL_HANDLE        == 0
VK_QUEUE_GRAPHICS_BIT == 1

\* queueFlags values a family may report: compute only (0x2), or graphics
\* and compute (0x1 | 0x2)
QueueFlagValues == {2, 3}

LayerNames == {"VK_LAYER_KHRONOS_validation", "VK_LAYER_LUNARG_api_dump"}

VkResults == {"VK_SUCCESS", "VK_ERROR_OUT_OF_HOST_MEMORY"}

\* sequences over S of length 0..n
SeqUpTo(S, n) == UNION {[1..k -> S] : k \in 0..n}

\* a physical device is described by what the queue-family query returns
QueueFamilyLists == SeqUpTo([queueFlags : QueueFlagValues], MaxFamilies)
DeviceLists      == SeqUpTo(QueueFamilyLists, MaxDevices)
LayerLists       == SeqUpTo(LayerNames, MaxLayers)

\* the same with, for every family, the platform's answer to whether it can
\* present to the surface (the support present_family is declared for)
SurfaceQueueFamilyLists ==
  SeqUpTo([queueFlags : QueueFlagValues, present : BOOLEAN], MaxFamilies)
SurfaceDeviceLists == SeqUpTo(SurfaceQueueFamilyLists, MaxSurfaceDevices)

\* ------------------------------------------------------------ bit arithmetic
RECURSIVE BitAnd(_, _)
BitAnd(a, b) ==
  IF a = 0 \/ b = 0 THEN 0
  ELSE (IF a % 2 = 1 /\ b % 2 = 1 THEN 1 ELSE 0) + 2 * BitAnd(a \div 2, b \div 2)

\* ------------------------------------------------------------ std::optional
nullopt    == [has_value |-> FALSE, value |-> 0]
some(v)    == [has_value |-> TRUE, value |-> v]

\* ------------------------------------------------------ queue_family_indices
validation_layers == <<"VK_LAYER_KHRONOS_validation">>

queue_family_indices == [graphics_family |-> nullopt, present_family |-> nullopt]

is_complete(queue_fam) == queue_fam.graphics_family.has_value

has_graphics_bit_exact(next_queue_family) ==
  next_queue_family.queueFlags = VK_QUEUE_GRAPHICS_BIT

has_graphics_bit(next_queue_family) ==
  BitAnd(next_queue_family.queueFlags, VK_QUEUE_GRAPHICS_BIT) # 0

record_graphics_shifted(indices, i) ==
  [indices EXCEPT !.graphics_family = some(i + 1)]

record_graphics(indices, i) ==
  [indices EXCEPT !.graphics_family = some(i)]

\* the range-for of find_queue_families: pos is the iterator (1-based
\* position in the vector), i the counter the code keeps beside it
RECURSIVE scan_queue_families_no_break(_, _, _, _)
scan_queue_families_no_break(queue_families, pos, i, indices) ==
  IF pos > Len(queue_families) THEN indices
  ELSE scan_queue_families_no_break(queue_families, pos + 1, i + 1,
         IF has_graphics_bit(queue_families[pos])
         THEN record_graphics(indices, i)
         ELSE indices)

RECURSIVE scan_queue_families(_, _, _, _)
scan_queue_families(queue_families, pos, i, indices) ==
  IF pos > Len(queue_families) THEN indices
  ELSE LET found == IF has_graphics_bit(queue_families[pos])
                    THEN record_graphics(indices, i)
                    ELSE indices
       IN IF is_complete(found) THEN found
          ELSE scan_queue_families(queue_families, pos + 1, i + 1, found)

\* device is the queue-family vector the platform returns for the handle
find_queue_families(device) ==
  scan_queue_families(device, 1, 0, queue_family_indices)

is_device_suitable(device) == is_complete(find_queue_families(device))

\* ------------------------------------------------------- device selection
\* The handle of the device at position p of the enumeration is p (never
\* VK_NULL_HANDLE).  scan_devices is the range-for of pick_physical_device.
RECURSIVE scan_devices_no_break(_, _, _)
scan_devices_no_break(devices, pos, physical_device) ==
  IF pos > Len(devices) THEN physical_device
  ELSE scan_devices_no_break(devices, pos + 1,
         IF is_device_suitable(devices[pos]) THEN pos ELSE physical_device)

RECURSIVE scan_devices(_, _, _)
scan_devices(devices, pos, physical_device) ==
  IF pos > Len(devices) THEN physical_device
  ELSE IF is_device_suitable(devices[pos]) THEN pos
       ELSE scan_devices(devices, pos + 1, physical_device)

\* ----------------------------------------------------------- exceptions
no_exception == [raised |-> FALSE, kind |-> "", what |-> "", thrower |-> ""]

runtime_error(what, thrower) ==
  [raised |-> TRUE, kind |-> "std::runtime_error", what |-> what, thrower |-> thrower]

layers_error ==
  runtime_error("Validation layers requested, but not available!", "init_vulkan")

instance_error ==
  runtime_error("Failed to create Vulkan instance!", "create_vulkan_instance")

messenger_error ==
  runtime_error("failed to set up debug messenger!", "setup_debug_messenger")

no_devices_error_other_kind ==
  [raised |-> TRUE, kind |-> "std::logic_error",
   what |-> "failed to find GPUs with Vulkan support!",
   thrower |-> "pick_physical_device"]

no_devices_error ==
  runtime_error("failed to find GPUs with Vulkan support!", "pick_physical_device")

no_suitable_error ==
  runtime_error("failed to find a suitable GPU!", "pick_physical_device")

\* outcome of the final null check of pick_physical_device
check_picked_lenient(physical_device) == no_exception

check_picked(physical_device) ==
  IF physical_device = VK_NULL_HANDLE THEN no_suitable_error ELSE no_exception

\* -------------------------------------------------- layer availability check
RECURSIVE layer_in_inverted(_, _, _)
layer_in_inverted(vlayer, available_layers, pos) ==
  IF pos > Len(available_layers) THEN FALSE
  ELSE IF vlayer # available_layers[pos] THEN TRUE
       ELSE layer_in_inverted(vlayer, available_layers, pos + 1)

RECURSIVE layer_in(_, _, _)
layer_in(vlayer, available_layers, pos) ==
  IF pos > Len(available_layers) THEN FALSE
  ELSE IF vlayer = available_layers[pos] THEN TRUE
       ELSE layer_in(vlayer, available_layers, pos + 1)

RECURSIVE check_layers_from(_, _)
check_layers_from(available_layers, n) ==
  IF n > Len(validation_layers) THEN TRUE
  ELSE IF ~layer_in(validation_layers[n], available_layers, 1) THEN FALSE
       ELSE check_layers_from(available_layers, n + 1)

check_validation_layer_support(available_layers) ==
  check_layers_from(available_layers, 1)

\* ------------------------------------------------------------ platform calls
\* The log keeps the calls that create or destroy a resource or take the
\* instance as an argument, with whether they succeeded.
call(fn, ok) == [fn |-> fn, ok |-> ok]

\* create_debug_utils_messenger: load the extension function, call it if found
create_debug_utils_messenger(loadable, result) ==
  IF loadable
  THEN <<call("vkGetInstanceProcAddr", TRUE),
         call("vkCreateDebugUtilsMessengerEXT", result = "VK_SUCCESS")>>
  ELSE <<call("vkGetInstanceProcAddr", FALSE)>>

create_debug_utils_messenger_result_lenient(loadable, result) ==
  IF loadable THEN result ELSE "VK_SUCCESS"

create_debug_utils_messenger_result(loadable, result) ==
  IF loadable THEN result ELSE "VK_ERROR_EXTENSION_NOT_PRESENT"

\* destroy_debug_utils_messenger: load the extension function, call it if found
destroy_debug_utils_messenger(loadable) ==
  IF loadable
  THEN <<call("vkGetInstanceProcAddr", TRUE),
         call("vkDestroyDebugUtilsMessengerEXT", TRUE)>>
  ELSE <<call("vkGetInstanceProcAddr", FALSE)>>

cleanup_calls_instance_first(validation, loadable) ==
  <<call("vkDestroyInstance", TRUE)>>
  \o (IF validation THEN destroy_debug_utils_messenger(loadable) ELSE <<>>)
  \o <<call("glfwDestroyWindow", TRUE), call("glfwTerminate", TRUE)>>

\* the platform calls of application_cleanup, in program order
cleanup_calls(validation, loadable) ==
  (IF validation THEN destroy_debug_utils_messenger(loadable) ELSE <<>>)
  \o <<call("vkDestroyInstance", TRUE),
       call("glfwDestroyWindow", TRUE), call("glfwTerminate", TRUE)>>

\* ------------------------------------------------------------ control flow
StepNames == {"init_window", "init_vulkan", "create_vulkan_instance",
              "setup_debug_messenger", "pick_physical_device",
              "application_main_loop", "application_cleanup"}

\* the statement that follows a call which returned normally
successor(step) ==
  CASE step = "init_window"            -> "init_vulkan"
    [] step = "init_vulkan"            -> "create_vulkan_instance"
    [] step = "create_vulkan_instance" -> "setup_debug_messenger"
    [] step = "setup_debug_messenger"  -> "pick_physical_device"
    [] step = "pick_physical_device"   -> "application_main_loop"
    [] step = "application_main_loop"  -> "application_cleanup"
    [] step = "application_cleanup"    -> "return"

next_pc_swallow(step, exc) == successor(step)

\* a throw unwinds init_vulkan and run_application to the handler in main
next_pc(step, exc) == IF exc.raised THEN "catch" ELSE successor(step)

enter(steps_so_far, target) ==
  IF target \in StepNames THEN Append(steps_so_far, target) ELSE steps_so_far

\* ------------------------------------------------------------------ state
VARIABLES
  pc,                       \* the statement of main/run_application to run next
  enable_validation_layers, \* the build: FALSE under NDEBUG
  app,                      \* the application struct
  available_layers,         \* the vector check_validation_layer_support filled, until the next call
  debug_utils_loadable,     \* whether the instance resolves the debug-utils functions
  platform_devices,         \* what vkEnumeratePhysicalDevices returned
  calls,                    \* platform calls made so far
  steps,                    \* functions of run_application/init_vulkan entered so far
  polls,                    \* iterations of the event loop
  exception,                \* the exception in flight or caught
  stderr,                   \* lines written to standard error by main
  exit_code                 \* value returned by main, once it returned

vars == <<pc, enable_validation_layers, app, available_layers,
          debug_utils_loadable, platform_devices, calls, steps, polls,
          exception, stderr, exit_code>>

\* application::application() sets window and physical_device only
application ==
  [window          |-> "NULL",
   vulkan_instance |-> "uninitialized",
   debug_messenger |-> "uninitialized",
   physical_device |-> VK_NULL_HANDLE]

Init ==
  /\ pc = "main"
  /\ enable_validation_layers \in BOOLEAN
  /\ app = application
  /\ available_layers = <<>>
  /\ debug_utils_loadable = FALSE
  /\ platform_devices = <<>>
  /\ calls = <<>>
  /\ steps = <<>>
  /\ polls = 0
  /\ exception = no_exception
  /\ stderr = <<>>
  /\ exit_code = nullopt

\* main: enter the try block and call run_application
main_try ==
  /\ pc = "main"
  /\ pc' = "init_window"
  /\ steps' = enter(steps, "init_window")
  /\ UNCHANGED <<enable_validation_layers, app, available_layers,
                 debug_utils_loadable, platform_devices, calls, polls,
                 exception, stderr, exit_code>>

init_window ==
  /\ pc = "init_window"
  /\ calls' = calls \o <<call("glfwInit", TRUE), call("glfwCreateWindow", TRUE)>>
  /\ app' = [app EXCEPT !.window = "window"]
  /\ pc' = next_pc("init_window", exception)
  /\ steps' = enter(steps, pc')
  /\ UNCHANGED <<enable_validation_layers, available_layers,
                 debug_utils_loadable, platform_devices, polls,
                 exception, stderr, exit_code>>

\* the guard at the head of init_vulkan; && does not query the layers when
\* validation is compiled out
init_vulkan ==
  /\ pc = "init_vulkan"
  /\ IF enable_validation_layers
     THEN \E layers \in LayerLists :
            /\ available_layers' = layers
            /\ exception' = IF ~check_validation_layer_support(layers)
                            THEN layers_error ELSE no_exception
     ELSE /\ available_layers' = available_layers
          /\ exception' = no_exception
  /\ pc' = next_pc("init_vulkan", exception')
  /\ steps' = enter(steps, pc')
  /\ UNCHANGED <<enable_validation_layers, app, debug_utils_loadable,
                 platform_devices, calls, polls, stderr, exit_code>>

create_vulkan_instance ==
  /\ pc = "create_vulkan_instance"
  /\ \E result \in VkResults, loadable \in BOOLEAN :
       /\ calls' = Append(calls, call("vkCreateInstance", result = "VK_SUCCESS"))
       /\ IF result # "VK_SUCCESS"
          THEN /\ exception' = instance_error
               /\ app' = app
               /\ debug_utils_loadable' = FALSE
          ELSE /\ exception' = no_exception
               /\ app' = [app EXCEPT !.vulkan_instance = "instance"]
               \* VK_EXT_debug_utils is only requested with validation on
               /\ debug_utils_loadable' = (enable_validation_layers /\ loadable)
  \* the vector of layers was a local of the check and is gone by now
  /\ available_layers' = <<>>
  /\ pc' = next_pc("create_vulkan_instance", exception')
  /\ steps' = enter(steps, pc')
  /\ UNCHANGED <<enable_validation_layers, platform_devices, polls,
                 stderr, exit_code>>

setup_debug_messenger ==
  /\ pc = "setup_debug_messenger"
  /\ IF ~enable_validation_layers
     THEN /\ calls' = calls
          /\ app' = app
          /\ exception' = no_exception
     ELSE \E result \in VkResults :
            LET r == create_debug_utils_messenger_result(debug_utils_loadable, result)
            IN /\ calls' = calls \o
                           create_debug_utils_messenger(debug_utils_loadable, result)
               /\ app' = IF r = "VK_SUCCESS"
                         THEN [app EXCEPT !.debug_messenger = "messenger"]
                         ELSE app
               /\ exception' = IF r # "VK_SUCCESS"
                               THEN messenger_error ELSE no_exception
  /\ pc' = next_pc("setup_debug_messenger", exception')
  /\ steps' = enter(steps, pc')
  /\ UNCHANGED <<enable_validation_layers, available_layers,
                 debug_utils_loadable, platform_devices, polls,
                 stderr, exit_code>>

\* pick_physical_device, with the platform enumerating one of device_lists
pick_from(device_lists) ==
  /\ pc = "pick_physical_device"
  /\ \E devices \in device_lists :
       /\ platform_devices' = devices
       /\ IF Len(devices) = 0
          THEN /\ calls' = Append(calls, call("vkEnumeratePhysicalDevices", TRUE))
               /\ app' = app
               /\ exception' = no_devices_error
          ELSE LET picked == scan_devices(devices, 1, app.physical_device)
               IN /\ calls' = calls \o <<call("vkEnumeratePhysicalDevices", TRUE),
                                         call("vkEnumeratePhysicalDevices", TRUE)>>
                  /\ app' = [app EXCEPT !.physical_device = picked]
                  /\ exception' = check_picked(picked)
  /\ pc' = next_pc("pick_physical_device", exception')
  /\ steps' = enter(steps, pc')
  /\ UNCHANGED <<enable_validation_layers, available_layers,
                 debug_utils_loadable, polls, stderr, exit_code>>

pick_physical_device == pick_from(DeviceLists)

\* one iteration of the loop: the window is not asked to close yet
main_loop_poll ==
  /\ pc = "application_main_loop"
  /\ polls < MaxPolls
  /\ polls' = polls + 1
  /\ UNCHANGED <<pc, enable_validation_layers, app, available_layers,
                 debug_utils_loadable, platform_devices, calls, steps,
                 exception, stderr, exit_code>>

\* glfwWindowShouldClose answers true: the loop ends
main_loop_close ==
  /\ pc = "application_main_loop"
  /\ pc' = next_pc("application_main_loop", exception)
  /\ steps' = enter(steps, pc')
  /\ UNCHANGED <<enable_validation_layers, app, available_layers,
                 debug_utils_loadable, platform_devices, calls, polls,
                 exception, stderr, exit_code>>

application_cleanup ==
  /\ pc = "application_cleanup"
  /\ calls' = calls \o cleanup_calls(enable_validation_layers, debug_utils_loadable)
  /\ pc' = next_pc("application_cleanup", exception)
  /\ steps' = enter(steps, pc')
  /\ UNCHANGED <<enable_validation_layers, app, available_layers,
                 debug_utils_loadable, platform_devices, polls,
                 exception, stderr, exit_code>>

\* main: run_application returned, return 0
main_return ==
  /\ pc = "return"
  /\ exit_code' = some(0)
  /\ pc' = "exited"
  /\ UNCHANGED <<enable_validation_layers, app, available_layers,
                 debug_utils_loadable, platform_devices, calls, steps, polls,
                 exception, stderr>>

main_catch_returns_zero ==
  /\ pc = "catch"
  /\ stderr' = Append(stderr, exception.what)
  /\ exit_code' = some(0)
  /\ pc' = "exited"
  /\ UNCHANGED <<enable_validation_layers, app, available_layers,
                 debug_utils_loadable, platform_devices, calls, steps, polls,
                 exception>>

\* main: the handler prints e.what() and returns -1
main_catch ==
  /\ pc = "catch"
  /\ stderr' = Append(stderr, exception.what)
  /\ exit_code' = some(-1)
  /\ pc' = "exited"
  /\ UNCHANGED <<enable_validation_layers, app, available_layers,
                 debug_utils_loadable, platform_devices, calls, steps, polls,
                 exception>>

Next ==
  \/ main_try
  \/ init_window
  \/ init_vulkan
  \/ create_vulkan_instance
  \/ setup_debug_messenger
  \/ pick_physical_device
  \/ main_loop_poll
  \/ main_loop_close
  \/ application_cleanup
  \/ main_return
  \/ main_catch

Spec == Init /\ [][Next]_vars

\* ------------------------------------------- pick_physical_device on its own
\* pick_physical_device is a public routine (application.h) that takes any
\* application: a second call on the same application enters with the handle
\* an earlier call stored, which may be a device of the new enumeration or
\* one that is no longer enumerated (MaxSurfaceDevices + 1).
PriorHandles == 0..(MaxSurfaceDevices + 1)

InitPick ==
  /\ pc = "pick_physical_device"
  /\ enable_validation_layers \in BOOLEAN
  /\ \E prior \in PriorHandles :
       app = [window          |-> "window",
              vulkan_instance |-> "instance",
              debug_messenger |-> IF enable_validation_layers
                                  THEN "messenger" ELSE "uninitialized",
              physical_device |-> prior]
  /\ available_layers = <<>>
  /\ debug_utils_loadable = enable_validation_layers
  /\ platform_devices = <<>>
  /\ calls = <<call("glfwInit", TRUE), call("glfwCreateWindow", TRUE),
               call("vkCreateInstance", TRUE)>>
             \o (IF enable_validation_layers
                 THEN create_debug_utils_messenger(TRUE, "VK_SUCCESS")
                 ELSE <<>>)
  /\ steps = <<"init_window", "init_vulkan", "create_vulkan_instance",
               "setup_debug_messenger", "pick_physical_device">>
  /\ polls = 0
  /\ exception = no_exception
  /\ stderr = <<>>
  /\ exit_code = nullopt

pick_on_surface == pick_from(SurfaceDeviceLists)

NextPick ==
  \/ pick_on_surface
  \/ main_catch

SpecPick == InitPick /\ [][NextPick]_vars

\* ---------------------------------------------------------------- helpers
Range(f) == {f[k] : k \in DOMAIN f}

Reverse(sq) == [k \in 1..Len(sq) |-> sq[Len(sq) + 1 - k]]

\* pick_physical_device has just returned, or has just thrown
pick_returned == pc = "application_main_loop" /\ polls = 0
pick_threw    == pc = "catch" /\ exception.thrower = "pick_physical_device"
pick_acted    == pick_returned \/ pick_threw

\* application_cleanup has run
cleanup_acted == \E k \in DOMAIN calls : calls[k].fn = "glfwTerminate"

\* some family of the device reports the graphics bit
HasGraphicsFamily(device) ==
  \E k \in DOMAIN device :
    (device[k].queueFlags \div VK_QUEUE_GRAPHICS_BIT) % 2 = 1

SuitablePositions == {p \in DOMAIN platform_devices :
                        is_device_suitable(platform_devices[p])}

CreateFns  == {"glfwInit", "glfwCreateWindow", "vkCreateInstance",
               "vkCreateDebugUtilsMessengerEXT"}
DestroyFns == {"glfwTerminate", "glfwDestroyWindow", "vkDestroyInstance",
               "vkDestroyDebugUtilsMessengerEXT"}

ResourceOf(fn) ==
  CASE fn \in {"glfwInit", "glfwTerminate"}              -> "glfw"
    [] fn \in {"glfwCreateWindow", "glfwDestroyWindow"}  -> "window"
    [] fn \in {"vkCreateInstance", "vkDestroyInstance"}  -> "instance"
    [] OTHER                                             -> "messenger"

IsCreate(c)  == c.fn \in CreateFns /\ c.ok
IsDestroy(c) == c.fn \in DestroyFns /\ c.ok

ResourcesOf(cs) == [k \in DOMAIN cs |-> ResourceOf(cs[k].fn)]

\* resources in the order they were created, and in the order they were destroyed
Created   == ResourcesOf(SelectSeq(calls, IsCreate))
Destroyed == ResourcesOf(SelectSeq(calls, IsDestroy))

Live == Range(Created) \ Range(Destroyed)

InstanceUsers == {"vkGetInstanceProcAddr", "vkCreateDebugUtilsMessengerEXT",
                  "vkEnumeratePhysicalDevices", "vkDestroyDebugUtilsMessengerEXT"}

Count(fn) == Cardinality({k \in DOMAIN calls : calls[k].fn = fn})

\* ----------------------------------------------------------------- claims

\* C1: when at least one enumerated device is suitable, pick_physical_device
\* stores the suitable device with the smallest position in enumeration
\* order; no suitable device precedes the stored one.
C1_FirstMatchWins ==
  (pick_acted /\ SuitablePositions # {}) =>
    /\ app.physical_device \in SuitablePositions
    /\ \A q \in SuitablePositions : app.physical_device <= q

C1_Witness ==
  /\ pick_acted
  /\ Cardinality(SuitablePositions) >= 2
  /\ 1 \notin SuitablePositions
  /\ app.physical_device = 2

\* C2: is_device_suitable(device) holds exactly when some queue family of the
\* device has the graphics bit; no families or only non-graphics families
\* make the device unsuitable.
C2_SuitableIffGraphics ==
  pick_acted =>
    \A p \in DOMAIN platform_devices :
      is_device_suitable(platform_devices[p]) <=>
        HasGraphicsFamily(platform_devices[p])

C2_Witness ==
  /\ pick_acted
  /\ \E p \in DOMAIN platform_devices : platform_devices[p] = <<>>
  /\ \E p \in DOMAIN platform_devices :
       /\ platform_devices[p] # <<>>
       /\ ~is_device_suitable(platform_devices[p])
  /\ \E p \in DOMAIN platform_devices :
       /\ platform_devices[p] = <<[queueFlags |-> 3]>>
       /\ app.physical_device = p

\* C3: when the enumerated list is non-empty and no device is suitable,
\* pick_physical_device throws the no-suitable-device error instead of
\* returning, and physical_device stays the null handle.
C3_NoSuitableThrows ==
  (pick_acted /\ platform_devices # <<>> /\ SuitablePositions = {}) =>
    /\ exception = no_suitable_error
    /\ pick_threw
    /\ app.physical_device = VK_NULL_HANDLE

C3_Witness ==
  /\ pick_acted
  /\ Len(platform_devices) >= 2
  /\ SuitablePositions = {}
  /\ pick_threw

\* C4: when the platform enumerates zero devices, selection fails with an
\* error of the same kind as the no-suitable-device failure, thrown from the
\* same function to the same handler, and main returns -1 for both.
C4_EmptySameKind ==
  /\ (pick_acted /\ platform_devices = <<>>) =>
       /\ exception.raised
       /\ exception.thrower = "pick_physical_device"
       /\ exception.kind = no_suitable_error.kind
       /\ pick_threw
  /\ (pc = "exited" /\ exception.thrower = "pick_physical_device") =>
       exit_code = some(-1)

C4_Witness ==
  /\ pick_acted
  /\ platform_devices = <<>>
  /\ exception.raised

\* C5: is_complete(r) holds exactly when every capability field of r
\* (graphics_family and present_family) is resolved, and a device is only
\* selected on a result with no unresolved field.
C5_CompleteIffAllResolved ==
  pick_acted =>
    \A p \in DOMAIN platform_devices :
      LET r == find_queue_families(platform_devices[p])
      IN /\ is_complete(r) <=>
              (r.graphics_family.has_value /\ r.present_family.has_value)
         /\ app.physical_device = p =>
              (r.graphics_family.has_value /\ r.present_family.has_value)

\* C6: when find_queue_families resolves graphics_family to k, the family at
\* position k (0-based) of the queried sequence has the graphics bit.
C6_IndexIsPosition ==
  pick_acted =>
    \A p \in DOMAIN platform_devices :
      LET device == platform_devices[p]
          r == find_queue_families(device)
      IN r.graphics_family.has_value =>
           /\ r.graphics_family.value + 1 \in DOMAIN device
           /\ (device[r.graphics_family.value + 1].queueFlags
                 \div VK_QUEUE_GRAPHICS_BIT) % 2 = 1

C6_Witness ==
  /\ pick_acted
  /\ app.physical_device # VK_NULL_HANDLE
  /\ find_queue_families(platform_devices[app.physical_device]).graphics_family
       = some(1)

\* C7: when the process has terminated, on the normal path and on every
\* exception path, every resource that was created has been released.
C7_ReleasedOnEveryExit == pc = "exited" => Live = {}

\* C8: once application_cleanup has run, the resources were destroyed in
\* exactly the reverse of their creation order, and the messenger was not
\* destroyed after the instance.
C8_TeardownReverse ==
  cleanup_acted =>
    /\ Destroyed = Reverse(Created)
    /\ \A i, j \in DOMAIN calls :
         (calls[i].fn = "vkDestroyInstance" /\
          calls[j].fn = "vkDestroyDebugUtilsMessengerEXT") => j < i

C8_Witness ==
  /\ pc = "exited"
  /\ cleanup_acted
  /\ Created = <<"glfw", "window", "instance", "messenger">>
  /\ Len(Destroyed) = 4

\* C9: the instance is created at most once and destroyed at most once, and
\* every call that takes the instance comes after its successful creation
\* and before its destruction.
C9_InstanceLifecycle ==
  /\ Count("vkCreateInstance") <= 1
  /\ Count("vkDestroyInstance") <= 1
  /\ \A k \in DOMAIN calls :
       calls[k].fn \in InstanceUsers \cup {"vkDestroyInstance"} =>
         /\ \E c \in 1..(k - 1) : calls[c].fn = "vkCreateInstance" /\ calls[c].ok
         /\ \A d \in 1..(k - 1) : calls[d].fn # "vkDestroyInstance"

C9_Witness ==
  /\ pc = "exited"
  /\ Count("vkDestroyInstance") = 1
  /\ Count("vkDestroyDebugUtilsMessengerEXT") = 1
  /\ Count("vkEnumeratePhysicalDevices") = 2

\* C10: once an initialization step has thrown, no later step and no loop
\* iteration runs, no step runs twice, and the error is handled by main,
\* which prints it and returns -1.
C10_FailFast ==
  exception.raised =>
    /\ steps # <<>>
    /\ steps[Len(steps)] = exception.thrower
    /\ \A i, j \in DOMAIN steps : steps[i] = steps[j] => i = j
    /\ "application_main_loop" \notin Range(steps)
    /\ polls = 0
    /\ pc \in {"catch", "exited"}
    /\ pc = "exited" => (stderr = <<exception.what>> /\ exit_code = some(-1))

C10_Witness ==
  /\ pc = "exited"
  /\ exception = messenger_error
  /\ steps = <<"init_window", "init_vulkan", "create_vulkan_instance",
               "setup_debug_messenger">>

\* C11: main returns 0 exactly when run_application ran to the end of
\* application_cleanup without a throw; after any throw main has written the
\* exception's message to standard error and returns a non-zero code.
C11_ExitCodes ==
  pc = "exited" =>
    /\ exit_code.has_value
    /\ (exit_code.value = 0) <=>
         (/\ ~exception.raised
          /\ cleanup_acted
          /\ steps[Len(steps)] = "application_cleanup")
    /\ exception.raised => (stderr = <<exception.what>> /\ exit_code.value # 0)
    /\ ~exception.raised => stderr = <<>>

C11_Witness ==
  /\ pc = "exited"
  /\ exception = no_suitable_error
  /\ stderr = <<"failed to find a suitable GPU!">>
  /\ exit_code = some(-1)

\* the messenger creation was attempted and did not succeed
MessengerFailed ==
  \E k \in DOMAIN calls :
    \/ calls[k].fn = "vkCreateDebugUtilsMessengerEXT" /\ ~calls[k].ok
    \/ /\ calls[k].fn = "vkGetInstanceProcAddr" /\ ~calls[k].ok
       /\ \A j \in 1..(k - 1) : calls[j].fn # "vkGetInstanceProcAddr"

\* C12: with validation layers disabled setup_debug_messenger attempts no
\* creation and does not throw; with them enabled every non-success result,
\* an unloadable creation function included, throws, and device selection is
\* not attempted.
C12_MessengerPolicy ==
  /\ ~enable_validation_layers =>
       /\ Count("vkGetInstanceProcAddr") = 0
       /\ Count("vkCreateDebugUtilsMessengerEXT") = 0
       /\ exception # messenger_error
  /\ MessengerFailed =>
       /\ enable_validation_layers
       /\ exception = messenger_error
       /\ "pick_physical_device" \notin Range(steps)
       /\ Count("vkEnumeratePhysicalDevices") = 0
       /\ app.physical_device = VK_NULL_HANDLE

C12_Witness ==
  /\ pc = "exited"
  /\ enable_validation_layers
  /\ exception = messenger_error
  /\ calls[Len(calls)] = call("vkGetInstanceProcAddr", FALSE)

\* init_vulkan has just run its layer check, with validation compiled in
layers_checked ==
  /\ enable_validation_layers
  /\ \/ pc = "create_vulkan_instance"
     \/ exception.thrower = "init_vulkan"

\* C14: the layer check succeeds exactly when every required layer name is
\* among the available layers; when it fails with validation enabled,
\* init_vulkan throws before the instance is created, so the run has no
\* instance, no messenger and no device selection.
C14_MissingLayer ==
  /\ layers_checked =>
       (~exception.raised <=>
          \A n \in DOMAIN validation_layers :
            \E k \in DOMAIN available_layers :
              available_layers[k] = validation_layers[n])
  /\ exception = layers_error =>
       /\ Count("vkCreateInstance") = 0
       /\ Count("vkCreateDebugUtilsMessengerEXT") = 0
       /\ Count("vkEnumeratePhysicalDevices") = 0
       /\ steps[Len(steps)] = "init_vulkan"
       /\ app.vulkan_instance = "uninitialized"
       /\ app.physical_device = VK_NULL_HANDLE

C14_Witness ==
  /\ pc = "exited"
  /\ enable_validation_layers
  /\ available_layers = <<"VK_LAYER_LUNARG_api_dump">>
  /\ exception = layers_error

\* positions (0-based) of the families of a device that have the graphics bit
GraphicsIndices(device) ==
  {k - 1 : k \in {j \in DOMAIN device :
                    (device[j].queueFlags \div VK_QUEUE_GRAPHICS_BIT) % 2 = 1}}

\* C16: find_queue_families resolves graphics_family to the smallest position
\* whose family has the graphics bit, and leaves it unresolved exactly when
\* no family has the bit.
C16_LowestGraphicsIndex ==
  pick_acted =>
    \A p \in DOMAIN platform_devices :
      LET device == platform_devices[p]
          r == find_queue_families(device)
      IN /\ r.graphics_family.has_value <=> GraphicsIndices(device) # {}
         /\ r.graphics_family.has_value =>
              /\ r.graphics_family.value \in GraphicsIndices(device)
              /\ \A k \in GraphicsIndices(device) : r.graphics_family.value <= k

C16_Witness ==
  /\ pick_returned
  /\ \E p \in DOMAIN platform_devices :
       /\ platform_devices[p] = <<[queueFlags |-> 2]>>
       /\ ~find_queue_families(platform_devices[p]).graphics_family.has_value
  /\ \E p \in DOMAIN platform_devices :
       /\ Cardinality(GraphicsIndices(platform_devices[p])) = 2
       /\ find_queue_families(platform_devices[p]).graphics_family = some(0)

\* some family of the device can present to the surface
HasPresentFamily(device) == \E k \in DOMAIN device : device[k].present

\* C13: a device is suitable exactly when it has a family with the graphics
\* bit and a family that can present to the surface (the same or another); a
\* device with a graphics family and no presenting family is rejected, and its
\* result has present_family unresolved and is incomplete.
C13_ExtendedConjunction ==
  pick_acted =>
    \A p \in DOMAIN platform_devices :
      LET device == platform_devices[p]
          r == find_queue_families(device)
      IN /\ is_device_suitable(device) <=>
              (HasGraphicsFamily(device) /\ HasPresentFamily(device))
         /\ (HasGraphicsFamily(device) /\ ~HasPresentFamily(device)) =>
              /\ ~r.present_family.has_value
              /\ ~is_complete(r)

\* C15: whenever pick_physical_device returns normally, physical_device is
\* one of the devices that call enumerated and is suitable, whatever it held
\* on entry; when no enumerated device is suitable the call throws.
C15_PostconditionAnyPrior ==
  /\ pick_returned => app.physical_device \in SuitablePositions
  /\ (pick_acted /\ SuitablePositions = {}) => pick_threw

====
